---------------------------- MODULE Spec2Model ----------------------------
(***************************************************************************)
(* geo2wiki-osm: the radius-expansion controller, its three clients and    *)
(* the report builder, in the two variants of the repository               *)
(* (geo2wiki-osm.py, "v1", and geo2wiki-osm_v3.py, "v3").                   *)
(*                                                                         *)
(* Python values are records with a "kind" field so that None, lists and   *)
(* dicts can be compared.  Coordinates are exact rationals [n, d].  The    *)
(* Distance column (haversine, real trigonometry) and the URL column are   *)
(* not computed; an OSM row keeps the (type, id) its URL is built from.    *)
(***************************************************************************)
EXTENDS Integers, Sequences, FiniteSets, TLC

VARIABLES
    variant,             \* "v1" (geo2wiki-osm.py) or "v3" (geo2wiki-osm_v3.py)
    initial_radius,      \* module-level parameters of the script
    max_radius,
    radius_increment,
    current_radius,      \* module-level state of the script
    wiki_results,
    wiki_data,           \* v3 only: the raw geosearch answer of the iteration
    osm_admin_data,
    osm_features_data,
    csv_data,
    written,             \* the CSV file has been written
    pc,                  \* position of the main thread
    future_wiki,         \* the three tasks of the iteration's executor
    future_osm_admin,
    future_osm_features,
    iters,               \* history: fan-out iterations started
    geo_seen,            \* history: some geosearch call returned a result
    admin_seen,          \* history: first non-empty reverse-geocoder result
    twin                 \* the two variants side by side (TwinSpec only)

vars == <<variant, initial_radius, max_radius, radius_increment, current_radius,
          wiki_results, wiki_data, osm_admin_data, osm_features_data, csv_data,
          written, pc, future_wiki, future_osm_admin, future_osm_features,
          iters, geo_seen, admin_seen, twin>>

params == <<variant, initial_radius, max_radius, radius_increment>>

-----------------------------------------------------------------------------
(* Program constants *)

min_results == 5

max_results == 20

(* Bounds of the model *)

\* initial_radius in 1..MaxRadius, max_radius in 0..MaxRadius,
\* radius_increment in 1..MaxRadius
MaxRadius == 2

\* the per-invocation count of Overpass requests saturates here
MaxRequests == 3

\* length of the accumulated element list the report builder is started on
MaxElements == 2

Variants == {"v1", "v3"}

Statuses == {200, 429, 500}

Min(a, b) == IF a < b THEN a ELSE b

-----------------------------------------------------------------------------
(* Python values *)

\* `if x` on a number-or-None coordinate
TruthyCoord(c) == c.kind = "num" /\ c.n # 0

NoCoord == [kind |-> "None", n |-> 0, d |-> 1]

Coord(n, d) == [kind |-> "num", n |-> n, d |-> d]

-----------------------------------------------------------------------------
(* What the three endpoints may answer *)

Title(k, i) == "W" \o ToString(k) \o "_" \o ToString(i)

\* n geosearch items of the k-th geosearch call
Titles(k, n) == [i \in 1..n |-> Title(k, i)]

WikiLens == {0, min_results - 1, min_results, max_results + 1}

\* a 200 body: the geosearch JSON, or a JSON object without "query"
WikiBodies(k) ==
    {[has_query |-> FALSE, items |-> <<>>]} \cup
    {[has_query |-> TRUE, items |-> Titles(k, n)] : n \in WikiLens}

WikiResponses(k) ==
    {[status |-> 200, body |-> b] : b \in WikiBodies(k)} \cup
    {[status |-> s, body |-> [has_query |-> FALSE, items |-> <<>>]] :
        s \in Statuses \ {200}}

AdminValue(kind, empty, has_name, display_name) ==
    [kind |-> kind, empty |-> empty, has_name |-> has_name,
     display_name |-> display_name]

\* {}
EmptyDict == AdminValue("dict", TRUE, FALSE, "")

\* a JSON object without "display_name", such as {"error": ...}
ErrorDict == AdminValue("dict", FALSE, FALSE, "")

\* the record of the k-th reverse-geocoder call
AdminRecord(k) == AdminValue("dict", FALSE, TRUE, "Admin" \o ToString(k))

AdminResponses(k) ==
    {[status |-> 200, body |-> b] : b \in {EmptyDict, ErrorDict, AdminRecord(k)}}
        \cup {[status |-> s, body |-> EmptyDict] : s \in Statuses \ {200}}

\* `if osm_admin_data` / `if not osm_admin_data`: neither None nor {}
TruthyAdmin(a) == a.kind = "dict" /\ ~a.empty

Node(id, has_tags, has_name, name, lat, lon) ==
    [type |-> "node", id |-> id, has_tags |-> has_tags, has_name |-> has_name,
     name |-> name, lat |-> lat, lon |-> lon, geometry |-> <<>>]

Way(id, name, geometry) ==
    [type |-> "way", id |-> id, has_tags |-> TRUE, has_name |-> TRUE,
     name |-> name, lat |-> 0, lon |-> 0, geometry |-> geometry]

Vertex(lat, lon) == [lat |-> lat, lon |-> lon]

Cafe == Node(1, TRUE, TRUE, "Cafe", 1, 2)

Untagged == Node(2, FALSE, FALSE, "", 1, 1)

Nameless == Node(3, TRUE, FALSE, "", 2, 1)

EmptyName == Node(4, TRUE, TRUE, "", 2, 2)

NullIsland == Node(5, TRUE, TRUE, "Null Island", 0, 5)

Hall == Way(6, "Hall", <<Vertex(1, 1), Vertex(1, 3), Vertex(3, 2)>>)

Shed == Way(7, "Shed", <<>>)

Park == [Way(8, "Park", <<>>) EXCEPT !.type = "relation"]

Hut == Way(9, "Hut", <<Vertex(1, 1), Vertex(2, 2)>>)

Yard == Way(10, "Yard", <<Vertex(0, 0), Vertex(0, 6), Vertex(3, 3), Vertex(3, 0)>>)

Ford == Way(11, "Ford", <<Vertex(-1, 1), Vertex(1, 1), Vertex(0, 4)>>)

ElementKinds ==
    {Cafe, Untagged, Nameless, EmptyName, NullIsland, Hall, Shed, Park, Hut,
     Yard, Ford}

\* the Overpass bodies the controller's runs are explored with
OsmBodies ==
    {[has_elements |-> FALSE, elements |-> <<>>],
     [has_elements |-> TRUE, elements |-> <<>>],
     [has_elements |-> TRUE, elements |-> <<Cafe>>],
     [has_elements |-> TRUE, elements |-> <<Nameless, Shed>>]}

OsmResponses ==
    {[status |-> 200, body |-> b] : b \in OsmBodies} \cup
    {[status |-> s, body |-> [has_elements |-> FALSE, elements |-> <<>>]] :
        s \in Statuses \ {200}}

-----------------------------------------------------------------------------
(* The clients *)

WikiValue(kind, has_query, items) ==
    [kind |-> kind, has_query |-> has_query, items |-> items]

\* v1 returns the list of items, [] on a non-200 status, and raises KeyError
\* on a 200 body without "query"; v3 returns the JSON, None on a non-200 status
get_wikipedia_geosearch(v, resp) ==
    IF v = "v1"
    THEN IF resp.status = 200
         THEN IF resp.body.has_query
              THEN WikiValue("list", TRUE, resp.body.items)
              ELSE WikiValue("raise", FALSE, <<>>)
         ELSE WikiValue("list", TRUE, <<>>)
    ELSE IF resp.status = 200
         THEN WikiValue("json", resp.body.has_query, resp.body.items)
         ELSE WikiValue("None", FALSE, <<>>)

get_osm_administrative_info(resp) ==
    IF resp.status = 200
    THEN resp.body
    ELSE AdminValue("None", TRUE, FALSE, "")

OsmValue(kind, has_elements, elements) ==
    [kind |-> kind, has_elements |-> has_elements, elements |-> elements]

\* one request of get_osm_nearby_features: "retry" stands for the sleep and
\* the recursive call of the 429 branch
get_osm_nearby_features(resp) ==
    IF resp.status = 200
    THEN OsmValue("json", resp.body.has_elements, resp.body.elements)
    ELSE IF resp.status = 429
         THEN OsmValue("retry", FALSE, <<>>)
         ELSE OsmValue("None", FALSE, <<>>)

-----------------------------------------------------------------------------
(* The radius-expansion loop, as operations on the controller's variables *)

Ctl(results, data, radius) ==
    [wiki_results |-> results, wiki_data |-> data, current_radius |-> radius,
     flow |-> "next"]

\* faulty variant: the radius test lets one more increment through
LoopCondition_OneMore(radius, results) ==
    radius <= max_radius + radius_increment /\ Len(results) < min_results

\* while current_radius <= max_radius and len(wiki_results) < min_results
LoopCondition(radius, results) ==
    radius <= max_radius /\ Len(results) < min_results

\* v1: wiki_results = future_wiki.result(); v3: wiki_data = future_wiki.result()
AssignWiki(v, c, value) ==
    IF v = "v1"
    THEN IF value.kind = "raise"
         THEN [c EXCEPT !.flow = "raise"]
         ELSE [c EXCEPT !.wiki_results = value.items]
    ELSE [c EXCEPT !.wiki_data = value]

\* faulty variant: the radius is raised even when enough results came back
Decide_AlwaysWiden(v, c) ==
    IF v = "v1"
    THEN [c EXCEPT !.current_radius = @ + radius_increment]
    ELSE IF c.wiki_data.kind = "json" /\ c.wiki_data.has_query
            /\ c.wiki_data.items # <<>>
         THEN [c EXCEPT !.wiki_results = c.wiki_data.items,
                        !.current_radius = @ + radius_increment]
         ELSE [c EXCEPT !.current_radius = @ + radius_increment]

\* the if/else at the end of the loop body
Decide(v, c) ==
    IF v = "v1"
    THEN IF c.wiki_results # <<>>
         THEN IF Len(c.wiki_results) >= min_results
              THEN [c EXCEPT !.flow = "break"]
              ELSE [c EXCEPT !.current_radius = @ + radius_increment]
         ELSE [c EXCEPT !.current_radius = @ + radius_increment]
    ELSE IF c.wiki_data.kind = "json" /\ c.wiki_data.has_query
            /\ c.wiki_data.items # <<>>
         THEN IF Len(c.wiki_data.items) >= min_results
              THEN [c EXCEPT !.wiki_results = c.wiki_data.items]
              ELSE [c EXCEPT !.wiki_results = c.wiki_data.items,
                             !.current_radius = @ + radius_increment]
         ELSE [c EXCEPT !.current_radius = @ + radius_increment]

\* osm_features_data.extend(osm_features["elements"]), guarded
ExtendFeatures(data, value) ==
    IF value.kind = "json" /\ value.has_elements
    THEN data \o value.elements
    ELSE data

\* faulty variant: the cache test is dropped
AdminNeedsResult_Always(cached) == TRUE

\* if not osm_admin_data: osm_admin_data = future_osm_admin.result()
AdminNeedsResult(cached) == ~TruthyAdmin(cached)

-----------------------------------------------------------------------------
(* Initial state *)

NoWikiValue == WikiValue("None", FALSE, <<>>)

NoAdmin == AdminValue("None", TRUE, FALSE, "")

NoOsmValue == OsmValue("None", FALSE, <<>>)

\* before the first iteration there is no task
NoFuture(none) ==
    [state |-> "none", radius |-> 0, requests |-> 0, result |-> none]

\* executor.submit: a task whose first request is on its way
Submitted(radius, none) ==
    [state |-> "running", radius |-> radius, requests |-> 1, result |-> none]

TwinSide(radius) ==
    [ctl |-> Ctl(<<>>, NoWikiValue, radius), iters |-> 0, radii |-> <<>>,
     last |-> <<>>, state |-> "loop"]

ParamsInit ==
    /\ initial_radius \in 1..MaxRadius
    /\ max_radius \in 0..MaxRadius
    /\ radius_increment \in 1..MaxRadius

StateInit ==
    /\ current_radius = initial_radius
    /\ wiki_results = <<>>
    /\ wiki_data = NoWikiValue
    /\ osm_admin_data = NoAdmin
    /\ osm_features_data = <<>>
    /\ csv_data = <<>>
    /\ written = FALSE
    /\ pc = "test"
    /\ future_wiki = NoFuture(NoWikiValue)
    /\ future_osm_admin = NoFuture(NoAdmin)
    /\ future_osm_features = NoFuture(NoOsmValue)
    /\ iters = 0
    /\ geo_seen = FALSE
    /\ admin_seen = NoAdmin
    /\ twin = [k |-> 0, v1 |-> TwinSide(initial_radius),
               v3 |-> TwinSide(initial_radius)]

Init ==
    /\ variant \in Variants
    /\ ParamsInit
    /\ StateInit

-----------------------------------------------------------------------------
(* The main thread: the loop *)

AllDone ==
    /\ future_wiki.state = "done"
    /\ future_osm_admin.state = "done"
    /\ future_osm_features.state = "done"

\* the loop test succeeds and the three calls are submitted
LoopEnter ==
    /\ pc = "test"
    /\ LoopCondition(current_radius, wiki_results)
    /\ future_wiki' = Submitted(current_radius, NoWikiValue)
    /\ future_osm_admin' = Submitted(0, NoAdmin)
    /\ future_osm_features' = Submitted(current_radius, NoOsmValue)
    /\ iters' = iters + 1
    /\ pc' = "join_wiki"
    /\ UNCHANGED <<params, current_radius, wiki_results, wiki_data,
                   osm_admin_data, osm_features_data, csv_data, written,
                   geo_seen, admin_seen, twin>>

\* the loop test fails
LoopExit ==
    /\ pc = "test"
    /\ ~LoopCondition(current_radius, wiki_results)
    /\ pc' = "report_wiki"
    /\ UNCHANGED <<params, current_radius, wiki_results, wiki_data,
                   osm_admin_data, osm_features_data, csv_data, written,
                   future_wiki, future_osm_admin, future_osm_features, iters,
                   geo_seen, admin_seen, twin>>

\* future_wiki.result()
JoinWiki ==
    /\ pc = "join_wiki"
    /\ future_wiki.state = "done"
    /\ LET c == AssignWiki(variant, Ctl(wiki_results, wiki_data, current_radius),
                           future_wiki.result)
       IN /\ wiki_results' = c.wiki_results
          /\ wiki_data' = c.wiki_data
          /\ pc' = IF c.flow = "raise" THEN "unwind" ELSE "join_admin"
    /\ UNCHANGED <<params, current_radius, osm_admin_data, osm_features_data,
                   csv_data, written, future_wiki, future_osm_admin,
                   future_osm_features, iters, geo_seen, admin_seen, twin>>

\* if not osm_admin_data: osm_admin_data = future_osm_admin.result()
JoinAdmin ==
    /\ pc = "join_admin"
    /\ IF AdminNeedsResult(osm_admin_data)
       THEN /\ future_osm_admin.state = "done"
            /\ osm_admin_data' = future_osm_admin.result
       ELSE osm_admin_data' = osm_admin_data
    /\ pc' = "join_osm"
    /\ UNCHANGED <<params, current_radius, wiki_results, wiki_data,
                   osm_features_data, csv_data, written, future_wiki,
                   future_osm_admin, future_osm_features, iters, geo_seen,
                   admin_seen, twin>>

\* osm_features = future_osm_features.result(), then the guarded extend
JoinOsm ==
    /\ pc = "join_osm"
    /\ future_osm_features.state = "done"
    /\ osm_features_data' =
           ExtendFeatures(osm_features_data, future_osm_features.result)
    /\ pc' = "decide"
    /\ UNCHANGED <<params, current_radius, wiki_results, wiki_data,
                   osm_admin_data, csv_data, written, future_wiki,
                   future_osm_admin, future_osm_features, iters, geo_seen,
                   admin_seen, twin>>

\* the if/else on the geosearch results: break, or widen the radius
DecideStep ==
    /\ pc = "decide"
    /\ LET c == Decide(variant, Ctl(wiki_results, wiki_data, current_radius))
       IN /\ wiki_results' = c.wiki_results
          /\ current_radius' = c.current_radius
          /\ pc' = IF c.flow = "break" THEN "shutdown_break" ELSE "shutdown"
    /\ UNCHANGED <<params, wiki_data, osm_admin_data, osm_features_data,
                   csv_data, written, future_wiki, future_osm_admin,
                   future_osm_features, iters, geo_seen, admin_seen, twin>>

\* leaving the `with` block: executor.shutdown(wait=True)
Shutdown ==
    /\ pc \in {"shutdown", "shutdown_break", "unwind"}
    /\ AllDone
    /\ pc' = CASE pc = "shutdown" -> "test"
               [] pc = "shutdown_break" -> "report_wiki"
               [] pc = "unwind" -> "crashed"
    /\ UNCHANGED <<params, current_radius, wiki_results, wiki_data,
                   osm_admin_data, osm_features_data, csv_data, written,
                   future_wiki, future_osm_admin, future_osm_features, iters,
                   geo_seen, admin_seen, twin>>

-----------------------------------------------------------------------------
(* The worker threads *)

WikiThread ==
    /\ future_wiki.state = "running"
    /\ \E resp \in WikiResponses(iters) :
         /\ future_wiki' = [future_wiki EXCEPT !.state = "done",
                                !.result = get_wikipedia_geosearch(variant, resp)]
         /\ geo_seen' = (geo_seen \/ (resp.status = 200 /\ resp.body.items # <<>>))
    /\ UNCHANGED <<params, current_radius, wiki_results, wiki_data,
                   osm_admin_data, osm_features_data, csv_data, written, pc,
                   future_osm_admin, future_osm_features, iters, admin_seen,
                   twin>>

AdminThread ==
    /\ future_osm_admin.state = "running"
    /\ \E resp \in AdminResponses(iters) :
         LET value == get_osm_administrative_info(resp)
         IN /\ future_osm_admin' = [future_osm_admin EXCEPT !.state = "done",
                                        !.result = value]
            /\ admin_seen' = IF ~TruthyAdmin(admin_seen) /\ TruthyAdmin(value)
                             THEN value ELSE admin_seen
    /\ UNCHANGED <<params, current_radius, wiki_results, wiki_data,
                   osm_admin_data, osm_features_data, csv_data, written, pc,
                   future_wiki, future_osm_features, iters, geo_seen, twin>>

\* the answer to one Overpass request
OsmThread ==
    /\ future_osm_features.state = "running"
    /\ \E resp \in OsmResponses :
         LET value == get_osm_nearby_features(resp)
         IN future_osm_features' =
                IF value.kind = "retry"
                THEN [future_osm_features EXCEPT !.state = "sleeping"]
                ELSE [future_osm_features EXCEPT !.state = "done",
                          !.result = value]
    /\ UNCHANGED <<params, current_radius, wiki_results, wiki_data,
                   osm_admin_data, osm_features_data, csv_data, written, pc,
                   future_wiki, future_osm_admin, iters, geo_seen, admin_seen,
                   twin>>

\* time.sleep(60) is over: the recursive call sends the request again
OsmRetry ==
    /\ future_osm_features.state = "sleeping"
    /\ future_osm_features' =
           [future_osm_features EXCEPT !.state = "running",
                !.requests = Min(@ + 1, MaxRequests)]
    /\ UNCHANGED <<params, current_radius, wiki_results, wiki_data,
                   osm_admin_data, osm_features_data, csv_data, written, pc,
                   future_wiki, future_osm_admin, iters, geo_seen, admin_seen,
                   twin>>

-----------------------------------------------------------------------------
(* The report builder *)

RECURSIVE SumLat(_)
SumLat(geometry) ==
    IF geometry = <<>> THEN 0 ELSE Head(geometry).lat + SumLat(Tail(geometry))

RECURSIVE SumLon(_)
SumLon(geometry) ==
    IF geometry = <<>> THEN 0 ELSE Head(geometry).lon + SumLon(Tail(geometry))

Succ(geometry, i) == IF i = Len(geometry) THEN 1 ELSE i + 1

\* x = lon, y = lat, as in Polygon([(node['lon'], node['lat']) ...])
Cross(geometry, i) ==
    geometry[i].lon * geometry[Succ(geometry, i)].lat
        - geometry[Succ(geometry, i)].lon * geometry[i].lat

RECURSIVE TwiceArea(_, _)
TwiceArea(geometry, i) ==
    IF i = 0 THEN 0 ELSE Cross(geometry, i) + TwiceArea(geometry, i - 1)

RECURSIVE MomentLat(_, _)
MomentLat(geometry, i) ==
    IF i = 0 THEN 0
    ELSE (geometry[i].lat + geometry[Succ(geometry, i)].lat) * Cross(geometry, i)
             + MomentLat(geometry, i - 1)

RECURSIVE MomentLon(_, _)
MomentLon(geometry, i) ==
    IF i = 0 THEN 0
    ELSE (geometry[i].lon + geometry[Succ(geometry, i)].lon) * Cross(geometry, i)
             + MomentLon(geometry, i - 1)

Point(lat, lon) == [lat |-> lat, lon |-> lon, raised |-> FALSE]

NoPoint == Point(NoCoord, NoCoord)

\* v1: the centroid of the shapely Polygon of the vertices (the constructor
\* raises ValueError on fewer than three vertices; a polygon of area 0 is
\* outside the model); v3: the arithmetic mean of the vertices
calculate_centroid(v, geometry) ==
    IF geometry = <<>>
    THEN NoPoint
    ELSE IF v = "v1"
         THEN IF Len(geometry) < 3
              THEN [NoPoint EXCEPT !.raised = TRUE]
              ELSE LET a2 == TwiceArea(geometry, Len(geometry))
                   IN CASE a2 # 0 ->
                          Point(Coord(MomentLat(geometry, Len(geometry)), 3 * a2),
                                Coord(MomentLon(geometry, Len(geometry)), 3 * a2))
         ELSE Point(Coord(SumLat(geometry), Len(geometry)),
                    Coord(SumLon(geometry), Len(geometry)))

\* faulty variant: only the presence of tags is tested
HasName_TagsOnly(element) == element.has_tags

\* "tags" in element and element["tags"].get("name")
HasName(element) ==
    element.has_tags /\ element.has_name /\ element.name # ""

filtered_osm_features(data) == SelectSeq(data, HasName)

\* the if/elif/else on element["type"]
ElementPoint(v, element) ==
    IF element.type = "node"
    THEN Point(Coord(element.lat, 1), Coord(element.lon, 1))
    ELSE IF element.type = "way"
         THEN calculate_centroid(v, element.geometry)
         ELSE NoPoint

\* if lat and lon
Located(point) == TruthyCoord(point.lat) /\ TruthyCoord(point.lon)

Blank == [kind |-> "blank", n |-> 0, d |-> 1]

Center == [kind |-> "center", n |-> 0, d |-> 1]

NoRef == [type |-> "", id |-> 0]

Row(source, name, lat, lon, ref) ==
    [source |-> source, name |-> name, lat |-> lat, lon |-> lon, ref |-> ref]

\* faulty variant: no placeholder row
WikiRows_NoPlaceholder(results) ==
    [i \in 1..Min(Len(results), max_results) |->
        Row("Wikipedia", results[i], Blank, Blank, NoRef)]

\* the Wikipedia section: wiki_results[:max_results], or the placeholder
WikiRows(results) ==
    IF results # <<>>
    THEN [i \in 1..Min(Len(results), max_results) |->
             Row("Wikipedia", results[i], Blank, Blank, NoRef)]
    ELSE <<Row("Wikipedia", "No results found", Blank, Blank, NoRef)>>

AdminRows(admin) ==
    IF TruthyAdmin(admin)
    THEN <<Row("OSM", admin.display_name, Center, Center, NoRef)>>
    ELSE <<Row("OSM", "No administrative info found", Blank, Blank, NoRef)>>

RECURSIVE FeatureRows(_, _)
FeatureRows(v, features) ==
    IF features = <<>>
    THEN <<>>
    ELSE LET element == Head(features)
             point == ElementPoint(v, element)
         IN (IF Located(point)
             THEN <<Row("OSM", element.name, point.lat, point.lon,
                        [type |-> element.type, id |-> element.id])>>
             ELSE <<>>) \o FeatureRows(v, Tail(features))

\* the nearby-features section
OsmRows(v, data) ==
    IF filtered_osm_features(data) # <<>>
    THEN FeatureRows(v, filtered_osm_features(data))
    ELSE <<Row("OSM", "No nearby features found", Blank, Blank, NoRef)>>

\* calculate_centroid raises on some element of the loop
OsmRaises(v, data) ==
    \E i \in 1..Len(data) : HasName(data[i]) /\ ElementPoint(v, data[i]).raised

ReportWiki ==
    /\ pc = "report_wiki"
    /\ csv_data' = csv_data \o WikiRows(wiki_results)
    /\ pc' = "report_admin"
    /\ UNCHANGED <<params, current_radius, wiki_results, wiki_data,
                   osm_admin_data, osm_features_data, written, future_wiki,
                   future_osm_admin, future_osm_features, iters, geo_seen,
                   admin_seen, twin>>

\* osm_admin_data["display_name"] raises KeyError on a record without it
AdminRaises(admin) == TruthyAdmin(admin) /\ ~admin.has_name

ReportAdmin ==
    /\ pc = "report_admin"
    /\ IF AdminRaises(osm_admin_data)
       THEN /\ pc' = "crashed"
            /\ csv_data' = csv_data
       ELSE /\ pc' = "report_osm"
            /\ csv_data' = csv_data \o AdminRows(osm_admin_data)
    /\ UNCHANGED <<params, current_radius, wiki_results, wiki_data,
                   osm_admin_data, osm_features_data, written, future_wiki,
                   future_osm_admin, future_osm_features, iters, geo_seen,
                   admin_seen, twin>>

ReportOsm ==
    /\ pc = "report_osm"
    /\ IF OsmRaises(variant, osm_features_data)
       THEN /\ pc' = "crashed"
            /\ csv_data' = csv_data
       ELSE /\ pc' = "write"
            /\ csv_data' = csv_data \o OsmRows(variant, osm_features_data)
    /\ UNCHANGED <<params, current_radius, wiki_results, wiki_data,
                   osm_admin_data, osm_features_data, written, future_wiki,
                   future_osm_admin, future_osm_features, iters, geo_seen,
                   admin_seen, twin>>

\* writer.writerows(csv_data)
WriteCsv ==
    /\ pc = "write"
    /\ written' = TRUE
    /\ pc' = "done"
    /\ UNCHANGED <<params, current_radius, wiki_results, wiki_data,
                   osm_admin_data, osm_features_data, csv_data, future_wiki,
                   future_osm_admin, future_osm_features, iters, geo_seen,
                   admin_seen, twin>>

-----------------------------------------------------------------------------
(* The specifications *)

MainThread ==
    \/ LoopEnter
    \/ LoopExit
    \/ JoinWiki
    \/ JoinAdmin
    \/ JoinOsm
    \/ DecideStep
    \/ Shutdown
    \/ ReportWiki
    \/ ReportAdmin
    \/ ReportOsm
    \/ WriteCsv

Next ==
    \/ MainThread
    \/ WikiThread
    \/ AdminThread
    \/ OsmThread
    \/ OsmRetry

Spec == Init /\ [][Next]_vars

\* every thread that can run eventually does
FairSpec ==
    /\ Spec
    /\ WF_vars(MainThread)
    /\ WF_vars(WikiThread)
    /\ WF_vars(AdminThread)
    /\ WF_vars(OsmThread \/ OsmRetry)

-----------------------------------------------------------------------------
(* The report builder on its own: started from the state the loop leaves    *)
(* after one iteration at radius 1 whose Overpass answer held `elements`    *)

RECURSIVE Lists(_, _)
Lists(S, n) ==
    IF n = 0
    THEN {<<>>}
    ELSE Lists(S, n - 1) \cup
         {Append(l, e) : l \in {x \in Lists(S, n - 1) : Len(x) = n - 1}, e \in S}

ReportInit ==
    /\ variant \in Variants
    /\ initial_radius = 1
    /\ max_radius = 1
    /\ radius_increment = 1
    /\ \E n \in {0, min_results - 1},
          a \in {r \in AdminResponses(1) : ~AdminRaises(get_osm_administrative_info(r))},
          elements \in Lists(ElementKinds, MaxElements) :
         LET wiki == get_wikipedia_geosearch(
                         variant,
                         [status |-> 200,
                          body |-> [has_query |-> TRUE, items |-> Titles(1, n)]])
             osm == OsmValue("json", TRUE, elements)
             c == Decide(variant, AssignWiki(variant,
                                             Ctl(<<>>, NoWikiValue, 1), wiki))
         IN /\ future_wiki =
                   [state |-> "done", radius |-> 1, requests |-> 1, result |-> wiki]
            /\ future_osm_admin =
                   [state |-> "done", radius |-> 0, requests |-> 1,
                    result |-> get_osm_administrative_info(a)]
            /\ future_osm_features =
                   [state |-> "done", radius |-> 1, requests |-> 1, result |-> osm]
            /\ wiki_results = c.wiki_results
            /\ wiki_data = c.wiki_data
            /\ current_radius = c.current_radius
            /\ osm_admin_data = get_osm_administrative_info(a)
            /\ admin_seen = IF TruthyAdmin(get_osm_administrative_info(a))
                            THEN get_osm_administrative_info(a) ELSE NoAdmin
            /\ osm_features_data = ExtendFeatures(<<>>, osm)
            /\ geo_seen = (n > 0)
    /\ csv_data = <<>>
    /\ written = FALSE
    /\ pc = "report_wiki"
    /\ iters = 1
    /\ twin = [k |-> 0, v1 |-> TwinSide(initial_radius),
               v3 |-> TwinSide(initial_radius)]

ReportNext ==
    \/ ReportWiki
    \/ ReportAdmin
    \/ ReportOsm
    \/ WriteCsv

ReportSpec == ReportInit /\ [][ReportNext]_vars

-----------------------------------------------------------------------------
(* The two variants side by side, fed the same geosearch responses *)

\* one pass of `v` through the loop test and, if it succeeds, the loop body
TwinRun(v, t, resp) ==
    IF t.state # "loop"
    THEN t
    ELSE IF ~LoopCondition(t.ctl.current_radius, t.ctl.wiki_results)
         THEN [t EXCEPT !.state = "exited"]
         ELSE LET a == AssignWiki(v, t.ctl, get_wikipedia_geosearch(v, resp))
                  c == IF a.flow = "raise" THEN a ELSE Decide(v, a)
              IN [ctl |-> [c EXCEPT !.flow = "next"],
                  iters |-> t.iters + 1,
                  radii |-> Append(t.radii, t.ctl.current_radius),
                  last |-> IF resp.status = 200 THEN resp.body.items ELSE <<>>,
                  state |-> CASE c.flow = "raise" -> "crashed"
                              [] c.flow = "break" -> "exited"
                              [] OTHER -> "loop"]

TwinInit ==
    /\ variant = "v1"
    /\ ParamsInit
    /\ StateInit

TwinStep ==
    /\ twin.v1.state = "loop" \/ twin.v3.state = "loop"
    /\ \E resp \in WikiResponses(twin.k + 1) :
         twin' = [k |-> twin.k + 1,
                  v1 |-> TwinRun("v1", twin.v1, resp),
                  v3 |-> TwinRun("v3", twin.v3, resp)]
    /\ UNCHANGED <<params, current_radius, wiki_results, wiki_data,
                   osm_admin_data, osm_features_data, csv_data, written, pc,
                   future_wiki, future_osm_admin, future_osm_features, iters,
                   geo_seen, admin_seen>>

TwinSpec == TwinInit /\ [][TwinStep]_vars

-----------------------------------------------------------------------------
(* Properties *)

Max(a, b) == IF a < b THEN b ELSE a

\* ceil(a / b) for b > 0
CeilDiv(a, b) == -((-a) \div b)

IterationBound ==
    CeilDiv(max_radius - initial_radius, radius_increment) + 1

\* the main thread is between iterations or past the loop
Settled == pc \in {"test", "report_wiki", "report_admin", "report_osm", "write", "done"}

\* the radius is the initial one raised once per iteration that did not stop
\* the loop
RadiusProgress ==
    Settled =>
        current_radius =
            initial_radius + radius_increment *
                (iters - (IF Len(wiki_results) >= min_results THEN 1 ELSE 0))

\* C1 as stated: a run performs no more than
\* ceil((maxRadius - initialRadius) / increment) + 1 iterations.
C1_IterationBound == pc = "done" => iters <= IterationBound

\* C1, amended: the loop runs at most
\* max(0, ceil((maxRadius - initialRadius) / increment) + 1) iterations, and
\* each iteration either stops the loop or raises the radius by the increment.
C1_IterationBoundClamped ==
    /\ iters <= Max(0, IterationBound)
    /\ RadiusProgress

\* a run that used every iteration the bound allows
C1_Witness == pc = "done" /\ iters >= 2 /\ iters = IterationBound

\* the items a geosearch call handed to the controller
ReturnedItems(value) ==
    IF value.kind \in {"list", "json"} /\ value.has_query
    THEN value.items
    ELSE <<>>

\* the geosearch call of the current iteration returned >= min_results results
GeoSatisfied ==
    /\ future_wiki.state = "done"
    /\ Len(ReturnedItems(future_wiki.result)) >= min_results

IsWikiRow(row) == row.source = "Wikipedia"

WikiSection == SelectSeq(csv_data, IsWikiRow)

C2_Inv ==
    GeoSatisfied =>
        /\ current_radius = future_wiki.radius
        /\ pc \in {"report_wiki", "report_admin", "report_osm", "write", "done"}
               => wiki_results = ReturnedItems(future_wiki.result)
        /\ pc \in {"report_admin", "report_osm", "write", "done"}
               => WikiSection = WikiRows(ReturnedItems(future_wiki.result))

C2_Step ==
    GeoSatisfied =>
        /\ GeoSatisfied'
        /\ iters' = iters
        /\ current_radius' = current_radius
        /\ future_wiki' = future_wiki

\* C2: once the geosearch call of an iteration has returned at least
\* min_results results, no further iteration starts, the radius stays the one
\* that iteration used, and the results held and reported are that call's.
C2_StopsWhenSatisfied == [](C2_Inv) /\ [][C2_Step]_vars

\* the second iteration's geosearch was the satisfying one, and the report is out
C2_Witness == pc = "done" /\ GeoSatisfied /\ iters >= 2

\* C3: whatever statuses the endpoints return, the run eventually writes the
\* report (runs ended by a malformed 200 body are set aside: the claim is about
\* statuses).
C3_RunCompletes == <>(written \/ pc = "crashed")

\* C4: one invocation of the nearby-features client sends at most two
\* requests.
C4_AtMostTwoRequests == future_osm_features.requests <= 2

C5_Inv ==
    /\ iters = 0 => osm_admin_data = NoAdmin
    /\ Settled =>
         IF TruthyAdmin(admin_seen)
         THEN osm_admin_data = admin_seen
         ELSE ~TruthyAdmin(osm_admin_data)
    /\ pc \in {"report_osm", "write", "done"} /\ TruthyAdmin(admin_seen) =>
         /\ \E i \in 1..Len(csv_data) :
               csv_data[i] = Row("OSM", admin_seen.display_name, Center, Center, NoRef)
         /\ \A i \in 1..Len(csv_data) :
               csv_data[i].name # "No administrative info found"

C5_Step == TruthyAdmin(osm_admin_data) => osm_admin_data' = osm_admin_data

\* C5: the cached administrative record starts absent, becomes the first
\* non-empty reverse-geocoder result, never changes afterwards, and is the one
\* the report's administrative row carries.
C5_AdminWriteOnce == [](C5_Inv) /\ [][C5_Step]_vars

\* a later iteration's reverse-geocoder call returned something else than the
\* record cached by the first
C5_Witness ==
    /\ pc = "done"
    /\ iters >= 2
    /\ osm_admin_data = AdminRecord(1)
    /\ future_osm_admin.result # osm_admin_data

\* C6: the feature list, the cached administrative record and the radius are
\* written only when all three calls of the iteration have completed.
C6_WritesAfterJoin ==
    [][(\/ osm_features_data' # osm_features_data
        \/ osm_admin_data' # osm_admin_data
        \/ current_radius' # current_radius) => AllDone]_vars

IsFeatureRow(row) == row.source = "OSM" /\ row.ref # NoRef

IsFeaturePlaceholder(row) ==
    row.source = "OSM" /\ row.name = "No nearby features found"

\* the element carries a non-empty "name" tag
Named(element) ==
    element.has_tags /\ element.has_name /\ element.name # ""

\* the element has a coordinate to resolve: a node, or a way with vertices
Resolvable(element) ==
    \/ element.type = "node"
    \/ element.type = "way" /\ Len(element.geometry) > 0

RefOf(element) == [type |-> element.type, id |-> element.id]

\* C7: every OSM feature row comes from an accumulated element that is named
\* and has a resolvable coordinate; an element without tags, without a name,
\* with an empty name or without a resolvable coordinate yields no row.
C7_OnlyNamedResolved ==
    pc \in {"write", "done"} =>
        /\ \A i \in 1..Len(csv_data) :
              IsFeatureRow(csv_data[i]) =>
                  \E j \in 1..Len(osm_features_data) :
                      /\ Named(osm_features_data[j])
                      /\ Resolvable(osm_features_data[j])
                      /\ csv_data[i].ref = RefOf(osm_features_data[j])
                      /\ csv_data[i].name = osm_features_data[j].name
        /\ \A j \in 1..Len(osm_features_data) :
              ~(Named(osm_features_data[j]) /\ Resolvable(osm_features_data[j])) =>
                  \A i \in 1..Len(csv_data) :
                      csv_data[i].ref # RefOf(osm_features_data[j])

\* a report with a feature row, built from a list that also held an element
\* to drop
C7_Witness ==
    /\ pc = "done"
    /\ \E i \in 1..Len(csv_data) : IsFeatureRow(csv_data[i])
    /\ \E j \in 1..Len(osm_features_data) :
          ~(Named(osm_features_data[j]) /\ Resolvable(osm_features_data[j]))

IsWikiPlaceholder(row) ==
    row.source = "Wikipedia" /\ row.name = "No results found"

\* C8: if the loop ran out of radii and geosearch never returned a result, the
\* report's only Wikipedia row is the placeholder; if the results held at loop
\* exit are non-empty, there is no placeholder and at most max_results
\* Wikipedia rows.
C8_WikiSection ==
    pc = "done" =>
        /\ current_radius > max_radius /\ ~geo_seen =>
              /\ Len(WikiSection) = 1
              /\ IsWikiPlaceholder(WikiSection[1])
        /\ wiki_results # <<>> =>
              /\ \A i \in 1..Len(WikiSection) : ~IsWikiPlaceholder(WikiSection[i])
              /\ Len(WikiSection) >= 1
              /\ Len(WikiSection) <= max_results

\* every radius was tried, at least two, and geosearch never returned a result
C8_Witness ==
    /\ pc = "done"
    /\ iters >= 2
    /\ current_radius > max_radius
    /\ ~geo_seen

\* C9: fed the same geosearch responses, the two variants run the same
\* iterations at the same radii and leave the loop holding the same results,
\* those of the last geosearch call.
C9_VariantsAgree ==
    twin.v1.state = "exited" /\ twin.v3.state = "exited" =>
        /\ twin.v1.iters = twin.v3.iters
        /\ twin.v1.radii = twin.v3.radii
        /\ twin.v1.ctl.wiki_results = twin.v3.ctl.wiki_results
        /\ twin.v1.ctl.wiki_results = twin.v1.last
        /\ twin.v3.ctl.wiki_results = twin.v3.last

\* C10: the nearby-features section of the report holds either feature rows
\* or exactly one placeholder row, never neither and never both.
C10_FeatureSectionNotEmpty ==
    pc = "done" =>
        LET features == SelectSeq(csv_data, IsFeatureRow)
            placeholders == SelectSeq(csv_data, IsFeaturePlaceholder)
        IN \/ Len(features) >= 1 /\ Len(placeholders) = 0
           \/ Len(features) = 0 /\ Len(placeholders) = 1

=============================================================================
